---- MODULE Spec2Model ----
(***************************************************************************)
(* Model of app.py: a visit ledger kept in one JSON file (DATA_FILE) and   *)
(* served by ThreadingHTTPServer, one handler thread per request.          *)
(*                                                                         *)
(* Conventions.                                                            *)
(*  - Text is a sequence of one-character strings, so that str.strip() is  *)
(*    computed and not assumed.                                            *)
(*  - Money is an integer number of mills (1/1000 of a yuan); round(x, 2)  *)
(*    is Round2, which yields a multiple of 10 mills.                      *)
(*  - The data file is a sequence of tokens: one token per serialized      *)
(*    record followed by the closing bracket of the JSON list.  A hole     *)
(*    left by a write past the end of a truncated file is a "nul" token.   *)
(*  - A read of the file (read_text) is one step; a save is an open that   *)
(*    truncates followed by one write per buffer-full of text.             *)
(*  - DATA_FILE exists from run() on and nothing removes it, so the        *)
(*    ensure_data_file() call inside load_records changes nothing.         *)
(*  - An amount whose third decimal is exactly 5 is rounded to the even    *)
(*    cent, as round() does for a value the float holds exactly; the input *)
(*    sets below hold no such amount.                                      *)
(***************************************************************************)
EXTENDS Integers, Sequences, FiniteSets, TLC

\* ------------------------------------------------------------- bounds
NumThreads == 3
MaxDelId == 2
ChunkLen == 2
MaxListLen == 3
MaxListId == 3

Threads == 1..NumThreads

\* ------------------------------------------------------------- text
\* str.strip(): drop leading and trailing white space.
RECURSIVE LStrip(_)
LStrip(s) == IF s # <<>> /\ Head(s) = " " THEN LStrip(Tail(s)) ELSE s

RECURSIVE RStrip(_)
RStrip(s) ==
    IF s # <<>> /\ s[Len(s)] = " " THEN RStrip(SubSeq(s, 1, Len(s) - 1)) ELSE s

Strip(s) == RStrip(LStrip(s))

\* ------------------------------------------------------------- numbers
Max2(a, b) == IF a >= b THEN a ELSE b
Min2(a, b) == IF a <= b THEN a ELSE b

\* round(x, 2) of a non-negative amount in mills: to the nearest 10 mills,
\* a tie going to the even cent.
Round2(m) ==
    LET q == m \div 10
        r == m % 10
    IN  IF r < 5 THEN q * 10
        ELSE IF r > 5 THEN (q + 1) * 10
        ELSE IF q % 2 = 0 THEN q * 10 ELSE (q + 1) * 10

\* float(s) of a form field: the value in mills, or a ValueError.
ParseFloat(s) ==
    CASE s = "0"    -> [ok |-> TRUE, v |-> 0]
      [] s = "50.5" -> [ok |-> TRUE, v |-> 50500]
      [] s = "-3"   -> [ok |-> TRUE, v |-> -3000]
      [] OTHER      -> [ok |-> FALSE, v |-> 0]

\* ------------------------------------------------------------- text order
\* ord(c) of the characters the model's texts are made of.
CharCode(c) ==
    CASE c = " " -> 32 [] c = "-" -> 45
      [] c = "0" -> 48 [] c = "1" -> 49 [] c = "2" -> 50 [] c = "3" -> 51
      [] c = "4" -> 52 [] c = "5" -> 53 [] c = "6" -> 54 [] c = "7" -> 55
      [] c = "8" -> 56 [] c = "9" -> 57
      [] c = "F" -> 70 [] c = "a" -> 97 [] c = "b" -> 98 [] c = "x" -> 120

RECURSIVE StrLess(_, _)
\* s < u for two str values: by the first character that differs, a proper
\* prefix being smaller.
StrLess(s, u) ==
    IF u = <<>> THEN FALSE
    ELSE IF s = <<>> THEN TRUE
    ELSE IF Head(s) # Head(u) THEN CharCode(Head(s)) < CharCode(Head(u))
    ELSE StrLess(Tail(s), Tail(u))

\* s >= u
StrGeq(s, u) == ~StrLess(s, u)

\* s.startswith(p)
StartsWith(s, p) == Len(p) <= Len(s) /\ SubSeq(s, 1, Len(p)) = p

\* q in s (substring)
Contains(s, q) ==
    \E i \in 0..(Len(s) - Len(q)) : SubSeq(s, i + 1, i + Len(q)) = q

\* ------------------------------------------------------------- dates
\* A datetime.date is a record [y, m, d].
Date(y, m, d) == [y |-> y, m |-> m, d |-> d]

IsLeap(y) == y % 4 = 0 /\ (y % 100 # 0 \/ y % 400 = 0)

DaysInMonth(y, m) ==
    CASE m \in {4, 6, 9, 11} -> 30
      [] m = 2 -> IF IsLeap(y) THEN 29 ELSE 28
      [] OTHER -> 31

RECURSIVE DaysBeforeMonth(_, _)
DaysBeforeMonth(y, m) ==
    IF m = 1 THEN 0 ELSE DaysBeforeMonth(y, m - 1) + DaysInMonth(y, m - 1)

\* date.toordinal(): day 1 is 0001-01-01.
ToOrdinal(dt) ==
    LET p == dt.y - 1
    IN  p * 365 + (p \div 4) - (p \div 100) + (p \div 400)
        + DaysBeforeMonth(dt.y, dt.m) + dt.d

\* date.weekday(): Monday is 0.
Weekday(dt) == (ToOrdinal(dt) + 6) % 7

\* dt - timedelta(days=1)
PrevDay(dt) ==
    IF dt.d > 1 THEN Date(dt.y, dt.m, dt.d - 1)
    ELSE IF dt.m > 1 THEN Date(dt.y, dt.m - 1, DaysInMonth(dt.y, dt.m - 1))
    ELSE Date(dt.y - 1, 12, 31)

RECURSIVE MinusDays(_, _)
\* dt - timedelta(days=n), n >= 0
MinusDays(dt, n) == IF n = 0 THEN dt ELSE MinusDays(PrevDay(dt), n - 1)

DigitChars == <<"0", "1", "2", "3", "4", "5", "6", "7", "8", "9">>
Digit(n) == DigitChars[(n % 10) + 1]

\* date.isoformat(): "YYYY-MM-DD", zero padded.
IsoFormat(dt) ==
    << Digit(dt.y \div 1000), Digit(dt.y \div 100), Digit(dt.y \div 10), Digit(dt.y),
       "-", Digit(dt.m \div 10), Digit(dt.m),
       "-", Digit(dt.d \div 10), Digit(dt.d) >>

\* date.strftime("%Y-%m")
MonthPrefix(dt) == SubSeq(IsoFormat(dt), 1, 7)

\* today - timedelta(days=today.weekday())
WeekStart(today) == MinusDays(today, Weekday(today))

\* ------------------------------------------------------------- data file
EndTok == [tok |-> "end"]
NulTok == [tok |-> "nul"]
RecTok(r) == [tok |-> "rec", rec |-> r]

\* json.dumps(records): one token per record, then the closing bracket.
Serialize(records) ==
    [i \in 1..(Len(records) + 1) |->
        IF i <= Len(records) THEN RecTok(records[i]) ELSE EndTok]

\* json.loads accepts the text: records, the closing bracket, nothing after.
Parses(doc) ==
    /\ Len(doc) >= 1
    /\ doc[Len(doc)] = EndTok
    /\ \A i \in 1..(Len(doc) - 1) : doc[i].tok = "rec"

\* The text "{}": JSON, but an object where the list is expected.
EmptyObjTok == [tok |-> "emptyobj"]
IsEmptyObject(doc) == doc = <<EmptyObjTok>>

\* json.loads returns a value (load_records checks nothing else).
Loads(doc) == Parses(doc) \/ IsEmptyObject(doc)

\* json.loads(text) of a text that parses.
Deserialize(doc) == [i \in 1..(Len(doc) - 1) |-> doc[i].rec]

\* The elements met when iterating over what load_records returned: the
\* records of a list, nothing for an empty object.
Iterated(doc) == IF IsEmptyObject(doc) THEN <<>> ELSE Deserialize(doc)

\* DATA_FILE does not exist.
Absent == <<[tok |-> "absent"]>>

\* Mutant of ensure_data_file: "[]" written whether the file exists or not.
ensure_data_file_always(doc) == Serialize(<<>>)

\* ensure_data_file(): the content of DATA_FILE after the call.
ensure_data_file(doc) == IF doc = Absent THEN Serialize(<<>>) ELSE doc

\* One write(2) of chunk at offset off (0-based) into content f.
WriteAt(f, off, chunk) ==
    [i \in 1..Max2(Len(f), off + Len(chunk)) |->
        IF i > off /\ i <= off + Len(chunk) THEN chunk[i - off]
        ELSE IF i <= Len(f) THEN f[i]
        ELSE NulTok]

\* ------------------------------------------------------------- next_id
RECURSIVE MaxIdFrom(_, _)
\* max(generator, default=acc) as a left-to-right scan.
MaxIdFrom(records, acc) ==
    IF records = <<>> THEN acc
    ELSE MaxIdFrom(Tail(records), Max2(acc, Head(records).id))

\* Mutants of next_id: default=1 where the code has default=0; the length of
\* the list where the code takes the maximum id.
next_id_default1(records) ==
    IF records = <<>> THEN 1 + 1
    ELSE MaxIdFrom(Tail(records), Head(records).id) + 1

next_id_len(records) == Len(records) + 1

next_id(records) ==
    IF records = <<>> THEN 0 + 1
    ELSE MaxIdFrom(Tail(records), Head(records).id) + 1

\* ------------------------------------------------------------- fee items
\* A JSON value found under "price" or "quantity": absent, a number (v in
\* mills), a string holding a decimal number (v in mills), or any other string.
Missing == [t |-> "missing", v |-> 0]
Num(v) == [t |-> "num", v |-> v]
NumStr(v) == [t |-> "numstr", v |-> v]
BadStr == [t |-> "bad", v |-> 0]
\* The floats json.loads makes of Infinity (or 1e999) and of NaN.
Inf == [t |-> "inf", v |-> 0]
NaN == [t |-> "nan", v |-> 0]

\* int(x) of a number in mills: truncation toward zero, in units.
TruncUnits(v) == IF v >= 0 THEN v \div 1000 ELSE -((-v) \div 1000)

\* max(0.0, float(item.get("price", 0) or 0)), 0.0 on TypeError/ValueError;
\* max(0.0, nan) is 0.0.  An infinite price is outside the model's amounts.
ItemPrice(jv) ==
    CASE jv.t = "num"    -> Max2(0, jv.v)
      [] jv.t = "numstr" -> Max2(0, jv.v)
      [] jv.t \in {"missing", "bad", "nan"} -> 0

\* max(1, int(item.get("quantity", 1) or 1)), 1 on TypeError/ValueError.
\* int() of a string accepts an integer literal only.
\* int(nan) is a ValueError.
ItemQty(jv) ==
    CASE jv.t = "num"    -> IF jv.v = 0 THEN 1 ELSE Max2(1, TruncUnits(jv.v))
      [] jv.t = "numstr" -> IF jv.v % 1000 = 0 THEN Max2(1, TruncUnits(jv.v)) ELSE 1
      [] jv.t \in {"missing", "bad", "nan"} -> 1

\* int(inf) is an OverflowError, which the except clause (TypeError,
\* ValueError) does not catch.
ItemQtyRaises(jv) == jv.t = "inf"

\* The body of the loop over the parsed list: the line item made of one
\* JSON object.
LineItem(item) ==
    LET name  == Strip(item.name)
        price == ItemPrice(item.price)
        qty   == ItemQty(item.quantity)
    IN  [name |-> name, price |-> price, quantity |-> qty,
         subtotal |-> Round2(price * qty)]

RECURSIVE ParseItems_and(_)
\* Mutant of ParseItems: an item is kept only with both a name and a subtotal.
ParseItems_and(parsed) ==
    IF parsed = <<>> THEN <<>>
    ELSE LET item == Head(parsed)
             rest == ParseItems_and(Tail(parsed))
         IN  IF item.k # "obj" THEN rest
             ELSE LET li == LineItem(item)
                  IN  IF li.name # <<>> /\ li.subtotal # 0
                      THEN <<li>> \o rest
                      ELSE rest

RECURSIVE ParseItems(_)
\* The loop of parse_fee_items over the parsed list.
ParseItems(parsed) ==
    IF parsed = <<>> THEN <<>>
    ELSE LET item == Head(parsed)
             rest == ParseItems(Tail(parsed))
         IN  IF item.k # "obj" THEN rest
             ELSE LET li == LineItem(item)
                  IN  IF li.name # <<>> \/ li.subtotal # 0
                      THEN <<li>> \o rest
                      ELSE rest

\* raw is the form field: empty, not JSON, JSON that is no list, or a list.
parse_fee_items(raw) ==
    IF raw.k # "list" THEN <<>> ELSE ParseItems(raw.items)

\* parse_fee_items(raw) ends with an exception instead of a list.
ParseRaises(raw) ==
    /\ raw.k = "list"
    /\ \E i \in 1..Len(raw.items) :
          raw.items[i].k = "obj" /\ ItemQtyRaises(raw.items[i].quantity)

RECURSIVE SumSubtotals(_)
SumSubtotals(items) ==
    IF items = <<>> THEN 0 ELSE Head(items).subtotal + SumSubtotals(Tail(items))

\* ------------------------------------------------------------- compute_fee
\* float(item.get("subtotal", 0) or 0) of an item whose subtotal is a number,
\* a string holding one, or absent.
ItemSubtotal(jv) ==
    CASE jv.t = "num"     -> jv.v
      [] jv.t = "numstr"  -> jv.v
      [] jv.t = "missing" -> 0

RECURSIVE SumItemSubtotals(_)
SumItemSubtotals(items) ==
    IF items = <<>> THEN 0
    ELSE ItemSubtotal(Head(items).subtotal) + SumItemSubtotals(Tail(items))

\* max(0.0, float(record.get("fee", 0) or 0)), 0.0 on TypeError/ValueError;
\* max(0.0, nan) is 0.0.
FlatFee(jv) ==
    CASE jv.t = "num"    -> Max2(0, jv.v)
      [] jv.t = "numstr" -> Max2(0, jv.v)
      [] jv.t \in {"missing", "bad", "nan"} -> 0

\* Mutant of compute_fee: the flat fee wins when it is positive.
compute_fee_flat_first(record) ==
    IF FlatFee(record.fee) > 0 THEN Round2(FlatFee(record.fee))
    ELSE IF record.fee_items.k = "list" /\ record.fee_items.items # <<>>
    THEN Round2(SumItemSubtotals(record.fee_items.items))
    ELSE 0

\* compute_fee(record); record.fee_items is absent, no list, or a list.
compute_fee(record) ==
    IF record.fee_items.k = "list" /\ record.fee_items.items # <<>>
    THEN Round2(SumItemSubtotals(record.fee_items.items))
    ELSE Round2(FlatFee(record.fee))

\* ------------------------------------------------------------- stats
RECURSIVE SumFees(_)
\* sum(compute_fee(r) for r in records)
SumFees(rs) ==
    IF rs = <<>> THEN 0 ELSE compute_fee(Head(rs)) + SumFees(Tail(rs))

\* Mutant of stats: the month's records are those dated before today.
stats_before_today(rs, today) ==
    LET OnDay(r)   == r.visit_date = IsoFormat(today)
        InMonth(r) == StrLess(r.visit_date, IsoFormat(today))
    IN  [count_all   |-> Len(rs),
         fee_all     |-> SumFees(rs),
         count_today |-> Len(SelectSeq(rs, OnDay)),
         fee_today   |-> SumFees(SelectSeq(rs, OnDay)),
         count_month |-> Len(SelectSeq(rs, InMonth)),
         fee_month   |-> SumFees(SelectSeq(rs, InMonth))]

\* stats(records) on the day today.
stats(rs, today) ==
    LET OnDay(r)   == r.visit_date = IsoFormat(today)
        InMonth(r) == StartsWith(r.visit_date, MonthPrefix(today))
    IN  [count_all   |-> Len(rs),
         fee_all     |-> SumFees(rs),
         count_today |-> Len(SelectSeq(rs, OnDay)),
         fee_today   |-> SumFees(SelectSeq(rs, OnDay)),
         count_month |-> Len(SelectSeq(rs, InMonth)),
         fee_month   |-> SumFees(SelectSeq(rs, InMonth))]

\* ------------------------------------------------------------- /add
\* Mutant of AddAccepted: the guard without its patient_name conjunct.
AddAccepted_gender_only(f) == Strip(f.gender) # <<>>

\* The guard of the append: both fields non-empty after strip().
AddAccepted(f) == Strip(f.patient_name) # <<>> /\ Strip(f.gender) # <<>>

\* fee_total of the /add branch.
FeeTotal(fee_items, fee) ==
    LET total == SumSubtotals(fee_items)
    IN  IF total # 0 THEN total
        ELSE LET p == ParseFloat(fee)
             IN  IF p.ok THEN Max2(0, p.v) ELSE 0

\* The dict appended by /add (free-text fields that no rule reads are left out).
NewRecord(f, records) ==
    LET fee_items == parse_fee_items(f.fee_items)
    IN  [id           |-> next_id(records),
         visit_date   |-> f.visit_date,
         patient_name |-> Strip(f.patient_name),
         gender       |-> Strip(f.gender),
         fee_items    |-> fee_items,
         fee          |-> Round2(FeeTotal(fee_items, f.fee))]

\* ------------------------------------------------------------- /delete
RECURSIVE DeleteFilter_gt(_, _)
\* Mutant of DeleteFilter: > where the code has !=.
DeleteFilter_gt(records, record_id) ==
    IF records = <<>> THEN <<>>
    ELSE IF Head(records).id > record_id
         THEN <<Head(records)>> \o DeleteFilter_gt(Tail(records), record_id)
         ELSE DeleteFilter_gt(Tail(records), record_id)

RECURSIVE DeleteFilter(_, _)
\* [r for r in records if int(r.get("id", 0)) != record_id]
DeleteFilter(records, record_id) ==
    IF records = <<>> THEN <<>>
    ELSE IF Head(records).id # record_id
         THEN <<Head(records)>> \o DeleteFilter(Tail(records), record_id)
         ELSE DeleteFilter(Tail(records), record_id)

\* ------------------------------------------------------------- GET /
\* The sort key (visit_date, id): a < b.
KeyLess(a, b) ==
    \/ StrLess(a.visit_date, b.visit_date)
    \/ a.visit_date = b.visit_date /\ a.id < b.id

RECURSIVE InsertDesc(_, _)
\* r put into a descending list, behind the records whose key is not smaller
\* (sorted(..., reverse=True) keeps the order of equal keys).
InsertDesc(sorted, r) ==
    IF sorted = <<>> THEN <<r>>
    ELSE IF KeyLess(Head(sorted), r) THEN <<r>> \o sorted
    ELSE <<Head(sorted)>> \o InsertDesc(Tail(sorted), r)

RECURSIVE SortDescFrom(_, _)
SortDescFrom(rs, acc) ==
    IF rs = <<>> THEN acc ELSE SortDescFrom(Tail(rs), InsertDesc(acc, Head(rs)))

\* sorted(records, key=(visit_date, id), reverse=True)
SortDesc(rs) == SortDescFrom(rs, <<>>)

\* q_range: the range parameter, "day" when absent or empty.
QRange(raw) == IF raw = "" THEN "day" ELSE raw

\* Mutant of RangeFilter: the week test against today instead of Monday.
RangeFilter_from_today(rs, q_range, today) ==
    LET OnDay(r)   == r.visit_date = IsoFormat(today)
        InWeek(r)  == StrGeq(r.visit_date, IsoFormat(today))
        InMonth(r) == StartsWith(r.visit_date, MonthPrefix(today))
    IN  CASE q_range = "day"   -> SelectSeq(rs, OnDay)
          [] q_range = "week"  -> SelectSeq(rs, InWeek)
          [] q_range = "month" -> SelectSeq(rs, InMonth)
          [] OTHER             -> rs

\* The else branch of do_GET: the filter by q_range; any other value of
\* q_range filters nothing.
RangeFilter(rs, q_range, today) ==
    LET OnDay(r)   == r.visit_date = IsoFormat(today)
        InWeek(r)  == StrGeq(r.visit_date, IsoFormat(WeekStart(today)))
        InMonth(r) == StartsWith(r.visit_date, MonthPrefix(today))
    IN  CASE q_range = "day"   -> SelectSeq(rs, OnDay)
          [] q_range = "week"  -> SelectSeq(rs, InWeek)
          [] q_range = "month" -> SelectSeq(rs, InMonth)
          [] OTHER             -> rs

\* Mutant of GetView: the name filter applied on top of the range filter.
GetView_both(loaded, q_name, q_range, today) ==
    LET sorted == RangeFilter(SortDesc(loaded), q_range, today)
        Named(r) == Contains(r.patient_name, q_name)
    IN  IF q_name # <<>> THEN SelectSeq(sorted, Named) ELSE sorted

\* The list do_GET hands to render_index.
GetView(loaded, q_name, q_range, today) ==
    LET sorted == SortDesc(loaded)
        Named(r) == Contains(r.patient_name, q_name)
    IN  IF q_name # <<>> THEN SelectSeq(sorted, Named)
        ELSE RangeFilter(sorted, q_range, today)

\* ------------------------------------------------------------- state
VARIABLES
    file,       \* content of DATA_FILE, a sequence of tokens
    pc,         \* per handler thread: where it is in do_POST
    form,       \* per handler thread: the parsed request
    snap,       \* per handler thread: what load_records() returned
    records,    \* per handler thread: the local list passed to save_records
    wpos,       \* per handler thread: offset of its open file in save_records
    fn_pc,      \* direct call of a pure function: "ready" or "returned"
    fn_arg,     \* its argument
    fn_ret      \* its result

vars == <<file, pc, form, snap, records, wpos, fn_pc, fn_arg, fn_ret>>
handler_vars == <<file, pc, form, snap, records, wpos>>
fn_vars == <<fn_pc, fn_arg, fn_ret>>

NoForm == [path |-> "none"]

\* run(): ensure_data_file() writes "[]" when the file is absent; no handler
\* thread has started.
HandlerInit ==
    /\ file = Serialize(<<>>)
    /\ pc = [t \in Threads |-> "idle"]
    /\ form = [t \in Threads |-> NoForm]
    /\ snap = [t \in Threads |-> <<>>]
    /\ records = [t \in Threads |-> <<>>]
    /\ wpos = [t \in Threads |-> 0]

\* No pure function is being called directly.
FnIdle ==
    /\ fn_pc = "idle"
    /\ fn_arg = <<>>
    /\ fn_ret = 0

Init == HandlerInit /\ FnIdle

\* ------------------------------------------------------------- handlers
\* do_POST, path /add, up to the call of save_records.
\* pc "corrupt": json.loads raised in load_records; pc "error": another
\* exception left the handler (OverflowError of parse_fee_items,
\* AttributeError of append on a dict).
DoPostAdd(t, f) ==
    /\ pc[t] = "idle"
    /\ form' = [form EXCEPT ![t] = f]
    /\ IF ~Loads(file)
       THEN /\ pc' = [pc EXCEPT ![t] = "corrupt"]
            /\ UNCHANGED <<snap, records>>
       ELSE LET loaded == Iterated(file)
            IN  /\ snap' = [snap EXCEPT ![t] = loaded]
                /\ IF ~AddAccepted(f)
                   THEN /\ records' = [records EXCEPT ![t] = loaded]
                        /\ pc' = [pc EXCEPT ![t] = "done"]
                   ELSE IF ParseRaises(f.fee_items) \/ IsEmptyObject(file)
                   THEN /\ records' = [records EXCEPT ![t] = loaded]
                        /\ pc' = [pc EXCEPT ![t] = "error"]
                   ELSE /\ records' = [records EXCEPT
                                ![t] = Append(loaded, NewRecord(f, loaded))]
                        /\ pc' = [pc EXCEPT ![t] = "save"]
    /\ UNCHANGED <<file, wpos, fn_vars>>

\* do_POST, path /delete, up to the call of save_records.
DoPostDelete(t, f) ==
    /\ pc[t] = "idle"
    /\ form' = [form EXCEPT ![t] = f]
    /\ IF ~Loads(file)
       THEN /\ pc' = [pc EXCEPT ![t] = "corrupt"]
            /\ UNCHANGED <<snap, records>>
       ELSE LET loaded == Iterated(file)
            IN  /\ snap' = [snap EXCEPT ![t] = loaded]
                /\ records' = [records EXCEPT ![t] = DeleteFilter(loaded, f.id)]
                /\ pc' = [pc EXCEPT ![t] = "save"]
    /\ UNCHANGED <<file, wpos, fn_vars>>

\* save_records: write_text opens the file with mode "w", which truncates it.
SaveOpen(t) ==
    /\ pc[t] = "save"
    /\ file' = <<>>
    /\ wpos' = [wpos EXCEPT ![t] = 0]
    /\ pc' = [pc EXCEPT ![t] = "write"]
    /\ UNCHANGED <<form, snap, records, fn_vars>>

\* save_records: one write(2) at this thread's offset of the next buffer-full
\* of the text (ChunkLen tokens, or what is left); the handler returns after
\* the last one.
SaveWrite(t) ==
    /\ pc[t] = "write"
    /\ LET doc == Serialize(records[t])
           k   == Min2(ChunkLen, Len(doc) - wpos[t])
       IN  /\ file' = WriteAt(file, wpos[t], SubSeq(doc, wpos[t] + 1, wpos[t] + k))
           /\ wpos' = [wpos EXCEPT ![t] = wpos[t] + k]
           /\ pc' = [pc EXCEPT
                 ![t] = IF wpos[t] + k = Len(doc) THEN "done" ELSE "write"]
    /\ UNCHANGED <<form, snap, records, fn_vars>>

\* save_records: the open or a write fails (OSError); the exception leaves
\* the handler.
SaveFail(t) ==
    /\ pc[t] \in {"save", "write"}
    /\ pc' = [pc EXCEPT ![t] = "ioerror"]
    /\ UNCHANGED <<file, form, snap, records, wpos, fn_vars>>

\* do_GET up to the call of render_index: load, sort, filter.
DoGet(t, f) ==
    /\ pc[t] = "idle"
    /\ form' = [form EXCEPT ![t] = f]
    /\ file' = ensure_data_file(file)
    /\ IF ~Loads(file')
       THEN /\ pc' = [pc EXCEPT ![t] = "corrupt"]
            /\ UNCHANGED <<snap, records>>
       ELSE /\ snap' = [snap EXCEPT ![t] = Iterated(file')]
            /\ records' = [records EXCEPT
                  ![t] = GetView(Iterated(file'), Strip(f.name), QRange(f.range), f.today)]
            /\ pc' = [pc EXCEPT ![t] = "render"]
    /\ UNCHANGED <<wpos, fn_vars>>

\* render_index: the second load (all_records, sorted) for the statistics
\* and the page; the response is sent.
RenderIndex(t) ==
    /\ pc[t] = "render"
    /\ file' = ensure_data_file(file)
    /\ IF ~Loads(file')
       THEN /\ pc' = [pc EXCEPT ![t] = "corrupt"]
            /\ UNCHANGED snap
       ELSE /\ snap' = [snap EXCEPT ![t] = SortDesc(Iterated(file'))]
            /\ pc' = [pc EXCEPT ![t] = "done"]
    /\ UNCHANGED <<form, records, wpos, fn_vars>>

\* No other handler thread is between its load and the end of its save.
Alone(t) == \A u \in Threads \ {t} : pc[u] \notin {"save", "write"}

\* ------------------------------------------------------------- requests
\* date.today() of the appends: a Wednesday.
Today == IsoFormat(Date(2024, 5, 8))

NoItems == [k |-> "empty", items |-> <<>>]

AddForm(name, gender, fee_items, fee) ==
    [path |-> "/add", patient_name |-> name, gender |-> gender,
     fee_items |-> fee_items, fee |-> fee, visit_date |-> Today]

DeleteForm(id) == [path |-> "/delete", id |-> id]

\* GET /?name=..&range=.. handled on the day today.
GetForm(name, range, today) ==
    [path |-> "/", name |-> name, range |-> range, today |-> today]

PatientNames == {<<" ">>, <<" ", "a">>}
Genders == {<<>>, <<"F">>}

\* The requests of the handler specifications: appends that are accepted or
\* rejected by validation, deletes of ids that exist or not.
AddForms == {AddForm(n, g, NoItems, "0") : n \in PatientNames, g \in Genders}
DeleteForms == {DeleteForm(i) : i \in 1..MaxDelId}

\* ------------------------------------------------------------- Spec
\* Handler threads run concurrently, as ThreadingHTTPServer starts them.
Next ==
    \E t \in Threads :
        \/ \E f \in AddForms : DoPostAdd(t, f)
        \/ \E f \in DeleteForms : DoPostDelete(t, f)
        \/ SaveOpen(t)
        \/ SaveWrite(t)
        \/ SaveFail(t)

Spec == Init /\ [][Next]_vars

\* ------------------------------------------------------------- SeqSpec
\* The same handlers, one request at a time: a request starts only when no
\* other is between its load and the end of its save.
SeqNext ==
    \E t \in Threads :
        \/ Alone(t) /\ \E f \in AddForms : DoPostAdd(t, f)
        \/ Alone(t) /\ \E f \in DeleteForms : DoPostDelete(t, f)
        \/ SaveOpen(t)
        \/ SaveWrite(t)
        \/ SaveFail(t)

SeqSpec == Init /\ [][SeqNext]_vars

\* ------------------------------------------------------------- QuerySpec
\* Appends, deletes and queries run concurrently.
QueryAddForms == {AddForm(<<"a">>, <<"F">>, NoItems, "0")}
QueryDeleteForms == {DeleteForm(1)}
QueryGetForms ==
    { GetForm(<<>>, "", Date(2024, 5, 8)),
      GetForm(<<" ", "a">>, "week", Date(2024, 5, 8)),
      GetForm(<<>>, "all", Date(2024, 5, 9)) }

QueryNext ==
    \E t \in Threads :
        \/ \E f \in QueryAddForms : DoPostAdd(t, f)
        \/ \E f \in QueryDeleteForms : DoPostDelete(t, f)
        \/ \E f \in QueryGetForms : DoGet(t, f)
        \/ RenderIndex(t)
        \/ SaveOpen(t)
        \/ SaveWrite(t)
        \/ SaveFail(t)

QuerySpec == Init /\ [][QueryNext]_vars

\* ------------------------------------------------------------- CorruptSpec
\* The server starts on a data file that is not a list of records: cut to
\* nothing or after its first record by a save that failed, or holding "{}".
CorruptDocs ==
    { <<>>,
      <<RecTok(NewRecord(AddForm(<<"a">>, <<"F">>, NoItems, "0"), <<>>))>>,
      <<EmptyObjTok>> }

CorruptInit ==
    /\ file \in CorruptDocs
    /\ pc = [t \in Threads |-> "idle"]
    /\ form = [t \in Threads |-> NoForm]
    /\ snap = [t \in Threads |-> <<>>]
    /\ records = [t \in Threads |-> <<>>]
    /\ wpos = [t \in Threads |-> 0]
    /\ FnIdle

CorruptSpec == CorruptInit /\ [][QueryNext]_vars

\* ------------------------------------------------------------- TornSpec
\* Enough handler threads for three appends one after the other and then an
\* append and a delete of the first record at the same time, so that saves
\* of documents of different lengths overlap.  Appends start one at a time;
\* saves that fail are left out.
TornThreads == 1..(NumThreads + 2)

TornInit ==
    /\ file = Serialize(<<>>)
    /\ pc = [t \in TornThreads |-> "idle"]
    /\ form = [t \in TornThreads |-> NoForm]
    /\ snap = [t \in TornThreads |-> <<>>]
    /\ records = [t \in TornThreads |-> <<>>]
    /\ wpos = [t \in TornThreads |-> 0]
    /\ FnIdle

\* No other handler thread has loaded without having finished its save.
TornAlone(t) == \A u \in TornThreads \ {t} : pc[u] \notin {"save", "write"}

TornNext ==
    \E t \in TornThreads :
        \/ TornAlone(t) /\ \E f \in QueryAddForms : DoPostAdd(t, f)
        \/ \E f \in QueryDeleteForms : DoPostDelete(t, f)
        \/ SaveOpen(t)
        \/ SaveWrite(t)

TornSpec == TornInit /\ [][TornNext]_vars

\* ------------------------------------------------------------- FeeSpec
\* Appends one at a time, with the fee fields of the form varied: no items,
\* a named item without price, a priced item; flat fees that parse or not.
NamedFreeItem ==
    [k |-> "obj", name |-> <<"x">>, price |-> Num(0), quantity |-> Missing]
PricedItem ==
    [k |-> "obj", name |-> <<>>, price |-> Num(1004), quantity |-> Num(2000)]
NonObject ==
    [k |-> "nonobj", name |-> <<>>, price |-> Missing, quantity |-> Missing]

FeeItemInputs ==
    { NoItems,
      [k |-> "notjson", items |-> <<>>],
      [k |-> "list", items |-> <<NamedFreeItem>>],
      [k |-> "list", items |-> <<NonObject, PricedItem>>] }
FeeInputs == {"50.5", "abc", "-3"}

FeeForms == {AddForm(<<"a">>, <<"F">>, i, fee) : i \in FeeItemInputs, fee \in FeeInputs}

FeeNext ==
    \E t \in Threads :
        \/ Alone(t) /\ \E f \in FeeForms : DoPostAdd(t, f)
        \/ SaveOpen(t)
        \/ SaveWrite(t)
        \/ SaveFail(t)

FeeSpec == Init /\ [][FeeNext]_vars

\* ------------------------------------------------------------- FnSpec
\* next_id called directly on an arbitrary list of records (ids in any order,
\* repeated, zero or negative).
RECURSIVE IdLists(_)
IdLists(n) ==
    IF n = 0 THEN {<<>>}
    ELSE LET shorter == IdLists(n - 1)
         IN  shorter \cup
             {Append(l, [id |-> i]) : l \in shorter, i \in (-1)..MaxListId}

FnInit ==
    /\ HandlerInit
    /\ fn_pc = "ready"
    /\ fn_arg \in IdLists(MaxListLen)
    /\ fn_ret = 0

NextIdCall ==
    /\ fn_pc = "ready"
    /\ fn_ret' = next_id(fn_arg)
    /\ fn_pc' = "returned"
    /\ UNCHANGED <<fn_arg, handler_vars>>

FnNext == NextIdCall

FnSpec == FnInit /\ [][FnNext]_vars

\* ------------------------------------------------------------- ParseSpec
\* parse_fee_items called directly on a form field: empty, not JSON, JSON
\* that is no list, or a list of up to MaxItems elements, objects with their
\* name, price and quantity varied or elements that are no objects.
MaxItems == 2

ItemNames == {<<>>, <<" ", "x">>}
ItemPrices ==
    {Missing, Num(0), Num(1125), Num(-3000), NumStr(50500), BadStr, NaN}
ItemQuantities ==
    { Missing, Num(0), Num(2900), Num(-1000), NumStr(3000), NumStr(2500),
      BadStr, NaN, Inf }

\* Elements of the list: no object, or an object with its price varied
\* (no quantity) or its quantity varied (price 1.125).
ItemInputs ==
    {NonObject}
    \cup {[k |-> "obj", name |-> n, price |-> p, quantity |-> Missing] :
            n \in ItemNames, p \in ItemPrices}
    \cup {[k |-> "obj", name |-> n, price |-> Num(1125), quantity |-> q] :
            n \in ItemNames, q \in ItemQuantities}

RECURSIVE ItemLists(_)
ItemLists(n) ==
    IF n = 0 THEN {<<>>}
    ELSE LET shorter == ItemLists(n - 1)
         IN  shorter \cup {Append(l, i) : l \in shorter, i \in ItemInputs}

RawInputs ==
    {NoItems, [k |-> "notjson", items |-> <<>>], [k |-> "scalar", items |-> <<>>]}
    \cup {[k |-> "list", items |-> l] : l \in ItemLists(MaxItems)}

ParseInit ==
    /\ HandlerInit
    /\ fn_pc = "ready"
    /\ fn_arg \in RawInputs
    /\ fn_ret = 0

\* The call: it returns the list of line items, or an exception leaves it.
ParseFeeItemsCall ==
    /\ fn_pc = "ready"
    /\ IF ParseRaises(fn_arg)
       THEN fn_pc' = "raised" /\ UNCHANGED fn_ret
       ELSE fn_pc' = "returned" /\ fn_ret' = parse_fee_items(fn_arg)
    /\ UNCHANGED <<fn_arg, handler_vars>>

ParseNext == ParseFeeItemsCall

ParseSpec == ParseInit /\ [][ParseNext]_vars

\* ------------------------------------------------------------- ComputeSpec
\* compute_fee called directly on a record: fee_items absent, no list, or a
\* list of up to MaxItems items with their subtotal varied; the flat fee
\* absent, a number, a string holding one or not, NaN.
SubtotalInputs == {Missing, Num(0), Num(2250), Num(125), Num(-500)}
FlatFeeInputs ==
    {Missing, Num(0), Num(7000), Num(125), NumStr(-3000), BadStr, NaN}

RECURSIVE StoredItemLists(_)
StoredItemLists(n) ==
    IF n = 0 THEN {<<>>}
    ELSE LET shorter == StoredItemLists(n - 1)
         IN  shorter \cup
             {Append(l, [k |-> "obj", subtotal |-> st]) :
                 l \in shorter, st \in SubtotalInputs}

FeeItemsFields ==
    {[k |-> "missing", items |-> <<>>], [k |-> "nonlist", items |-> <<>>]}
    \cup {[k |-> "list", items |-> l] : l \in StoredItemLists(MaxItems)}

FeeRecords == {[fee_items |-> fi, fee |-> fee] :
                  fi \in FeeItemsFields, fee \in FlatFeeInputs}

ComputeInit ==
    /\ HandlerInit
    /\ fn_pc = "ready"
    /\ fn_arg \in FeeRecords
    /\ fn_ret = 0

ComputeFeeCall ==
    /\ fn_pc = "ready"
    /\ fn_ret' = compute_fee(fn_arg)
    /\ fn_pc' = "returned"
    /\ UNCHANGED <<fn_arg, handler_vars>>

ComputeNext == ComputeFeeCall

ComputeSpec == ComputeInit /\ [][ComputeNext]_vars

\* ------------------------------------------------------------- ViewSpec
\* The sort and filter of do_GET applied directly to a loaded collection of
\* up to MaxRecs records (ids in load order, dates around two week starts
\* and a month end, patient names) for each query and reference day.
MaxRecs == 3

RecordDates ==
    { Date(2024, 4, 29), Date(2024, 5, 5), Date(2024, 5, 6),
      Date(2024, 5, 8), Date(2024, 6, 1) }
\* visit_date and patient_name of the records: each date once, the
\* reference day 2024-05-08 under both names.
RecordKinds ==
    { <<Date(2024, 4, 29), <<"a", "b">> >>, <<Date(2024, 5, 5), <<"b">> >>,
      <<Date(2024, 5, 6), <<"a", "b">> >>, <<Date(2024, 5, 8), <<"b">> >>,
      <<Date(2024, 5, 8), <<"b", "a">> >>, <<Date(2024, 6, 1), <<"b">> >> }
QueryNames == {<<>>, <<" ">>, <<"a", " ">>}
QueryRanges == {"", "week", "month", "all"}
QueryDays == {Date(2024, 5, 5), Date(2024, 5, 6), Date(2024, 5, 8)}

RECURSIVE RecordLists(_)
RecordLists(n) ==
    IF n = 0 THEN {<<>>}
    ELSE LET shorter == RecordLists(n - 1)
         IN  shorter \cup
             {Append(l, [id |-> Len(l) + 1, visit_date |-> IsoFormat(rk[1]),
                         patient_name |-> rk[2]]) :
                 l \in {x \in shorter : Len(x) = n - 1}, rk \in RecordKinds}

ViewInputs ==
    {[loaded |-> l, name |-> qn, range |-> qr, today |-> td] :
        l \in RecordLists(MaxRecs), qn \in QueryNames,
        qr \in QueryRanges, td \in QueryDays}

ViewInit ==
    /\ HandlerInit
    /\ fn_pc = "ready"
    /\ fn_arg \in ViewInputs
    /\ fn_ret = 0

\* Lines 446-461 of do_GET on what load_records returned.
GetViewCall ==
    /\ fn_pc = "ready"
    /\ fn_ret' = GetView(fn_arg.loaded, Strip(fn_arg.name),
                         QRange(fn_arg.range), fn_arg.today)
    /\ fn_pc' = "returned"
    /\ UNCHANGED <<fn_arg, handler_vars>>

ViewNext == GetViewCall

ViewSpec == ViewInit /\ [][ViewNext]_vars

\* ------------------------------------------------------------- StatsSpec
\* stats called directly on a collection of up to MaxRecs records, dated
\* around a month end, each with a flat fee or with one fee item, on each
\* reference day.
StatsFees ==
    { [fee_items |-> [k |-> "list", items |-> <<>>], fee |-> Num(7000)],
      [fee_items |-> [k |-> "list",
                      items |-> <<[k |-> "obj", subtotal |-> Num(2250)]>>],
       fee |-> Num(0)] }

RECURSIVE StatsLists(_)
StatsLists(n) ==
    IF n = 0 THEN {<<>>}
    ELSE LET shorter == StatsLists(n - 1)
         IN  shorter \cup
             {Append(l, [id |-> Len(l) + 1, visit_date |-> IsoFormat(d),
                         fee_items |-> sf.fee_items, fee |-> sf.fee]) :
                 l \in {x \in shorter : Len(x) = n - 1},
                 d \in RecordDates, sf \in StatsFees}

StatsInputs ==
    {[records |-> l, today |-> td] : l \in StatsLists(MaxRecs), td \in QueryDays}

StatsInit ==
    /\ HandlerInit
    /\ fn_pc = "ready"
    /\ fn_arg \in StatsInputs
    /\ fn_ret = 0

StatsCall ==
    /\ fn_pc = "ready"
    /\ fn_ret' = stats(fn_arg.records, fn_arg.today)
    /\ fn_pc' = "returned"
    /\ UNCHANGED <<fn_arg, handler_vars>>

StatsNext == StatsCall

StatsSpec == StatsInit /\ [][StatsNext]_vars

\* ------------------------------------------------------------- RestartSpec
\* The server is started again on the data file that MaxRecs appends, one
\* after the other, have left (run() leaves an existing file as it is);
\* appends, deletes and queries then run concurrently.
RECURSIVE AfterAppends(_)
AfterAppends(n) ==
    IF n = 0 THEN <<>>
    ELSE LET before == AfterAppends(n - 1)
         IN  Append(before,
                    NewRecord(AddForm(<<"a">>, <<"F">>, NoItems, "0"), before))

RestartInit ==
    /\ file = Serialize(AfterAppends(MaxRecs))
    /\ pc = [t \in Threads |-> "idle"]
    /\ form = [t \in Threads |-> NoForm]
    /\ snap = [t \in Threads |-> <<>>]
    /\ records = [t \in Threads |-> <<>>]
    /\ wpos = [t \in Threads |-> 0]
    /\ FnIdle

RestartSpec == RestartInit /\ [][QueryNext]_vars

\* ------------------------------------------------------------- helpers of the properties
IdsOf(rs) == [i \in 1..Len(rs) |-> rs[i].id]
HasId(rs, id) == \E i \in 1..Len(rs) : rs[i].id = id
Last(rs) == rs[Len(rs)]
UpTo(n) == [i \in 1..n |-> i]

\* Thread t handles an append that passed validation.
Accepted(t) == form[t].path = "/add" /\ AddAccepted(form[t])
\* Thread t is between its load and the end of its save.
InMutation(t) == pc[t] \in {"save", "write"}
\* Thread t takes its first step (parses the form and loads) in this step.
Starts(t) == pc[t] = "idle" /\ pc'[t] # "idle"

\* ------------------------------------------------------------- C1
\* C1: store-mutating operations are serialized: no two handler threads are
\* both between load and save having loaded the same snapshot.
MutationsSerialized ==
    \A t, u \in Threads :
        t # u => ~(InMutation(t) /\ InMutation(u) /\ snap[t] = snap[u])

\* ------------------------------------------------------------- C2
\* C2: no lost update on append: when the requests so far are two or more
\* accepted appends and all have completed, the stored collection holds the
\* record of each of them (so at least as many records as appends).
NoLostAppend ==
    LET ran == {t \in Threads : pc[t] # "idle"}
    IN  (/\ Cardinality(ran) >= 2
         /\ \A t \in ran : pc[t] = "done" /\ Accepted(t))
        => /\ Parses(file)
           /\ Len(Deserialize(file)) >= Cardinality(ran)
           /\ \A t \in ran :
                \E i \in 1..Len(Deserialize(file)) :
                    Deserialize(file)[i] = Last(records[t])

\* ------------------------------------------------------------- C3
\* C3: ids are never reused: two completed accepted appends never got the
\* same id, whatever deletes came between them.
IdsNeverReused ==
    \A t, u \in Threads :
        (/\ t # u
         /\ pc[t] = "done" /\ Accepted(t)
         /\ pc[u] = "done" /\ Accepted(u))
        => Last(records[t]).id # Last(records[u]).id

\* ------------------------------------------------------------- C4
\* C4: a load that runs while another thread is inside save_records never
\* observes a truncated or partial document: it returns a complete collection.
LoadSeesCompleteDocument ==
    [][\A t \in Threads :
          (Starts(t) /\ \E u \in Threads \ {t} : pc[u] = "write")
          => /\ pc'[t] # "corrupt"
             /\ Parses(file)]_vars

\* ------------------------------------------------------------- C5
\* C5: save is all-or-nothing under failure: when save_records fails, the
\* file still holds the complete collection that was stored before it.
SaveAllOrNothing ==
    [][\A t \in Threads :
          (InMutation(t) /\ pc'[t] = "ioerror")
          => file' = Serialize(snap[t])]_vars

\* ------------------------------------------------------------- C6
\* C6: every record stored by an append whose fee_items is non-empty has a
\* fee equal to the rounded sum of the subtotals of its fee_items, whatever
\* flat fee was submitted.
StoredFeeIsItemSum ==
    \A i \in 1..Len(file) :
        (file[i].tok = "rec" /\ file[i].rec.fee_items # <<>>)
        => file[i].rec.fee = Round2(SumSubtotals(file[i].rec.fee_items))

\* ------------------------------------------------------------- C7
\* C7: an append whose patient_name is empty after trimming, made on a
\* readable store, changes nothing and ends normally: the file is the same
\* after the step and the handler is done without entering save_records.
RejectedAppendNoEffect ==
    [][\A t \in Threads :
          (/\ Starts(t)
           /\ form'[t].path = "/add"
           /\ Strip(form'[t].patient_name) = <<>>
           /\ Parses(file))
          => /\ pc'[t] = "done"
             /\ file' = file
             /\ Deserialize(file') = snap'[t]]_vars

\* A rejected append has run against a store that holds a record.
RejectedAppendWitness ==
    \E t \in Threads :
        /\ pc[t] = "done"
        /\ form[t].path = "/add"
        /\ Strip(form[t].patient_name) = <<>>
        /\ Strip(form[t].gender) # <<>>
        /\ Len(snap[t]) >= 1
        /\ file = Serialize(snap[t])

\* ------------------------------------------------------------- C8
\* C8: delete(id) for an id no stored record has is a no-op when nothing is
\* interleaved: the handler goes on to save exactly what it loaded, and when
\* its save ends the file holds the collection it held before, in order.
DeleteMissingIsNoOp ==
    [][\A t \in Threads :
          /\ (/\ Starts(t)
              /\ form'[t].path = "/delete"
              /\ Parses(file)
              /\ ~HasId(Deserialize(file), form'[t].id))
             => /\ pc'[t] = "save"
                /\ records'[t] = Deserialize(file)
          /\ (/\ form[t].path = "/delete"
              /\ pc[t] = "write" /\ pc'[t] = "done"
              /\ ~HasId(snap[t], form[t].id))
             => /\ Parses(file')
                /\ Deserialize(file') = snap[t]]_vars

\* A delete of a missing id has completed on a non-empty store.
DeleteMissingWitness ==
    \E t \in Threads :
        /\ form[t].path = "/delete"
        /\ pc[t] = "done"
        /\ snap[t] # <<>>
        /\ ~HasId(snap[t], form[t].id)
        /\ file = Serialize(snap[t])

\* ------------------------------------------------------------- C9
\* C9: next_id returns 1 for the empty collection and otherwise the greatest
\* id of the collection plus 1.
NextIdIsMaxPlusOne ==
    fn_pc = "returned" =>
        IF fn_arg = <<>> THEN fn_ret = 1
        ELSE /\ \E i \in 1..Len(fn_arg) : fn_arg[i].id = fn_ret - 1
             /\ \A i \in 1..Len(fn_arg) : fn_arg[i].id <= fn_ret - 1

\* next_id has returned for a collection whose greatest id is not the last.
NextIdWitness ==
    /\ fn_pc = "returned"
    /\ Len(fn_arg) >= 2
    /\ fn_arg[1].id > fn_arg[2].id
    /\ fn_ret = fn_arg[1].id + 1

\* ------------------------------------------------------------- C10
\* The accepted appends that have completed.
DoneAppends == {t \in Threads : pc[t] = "done" /\ Accepted(t)}
\* No delete request has been made so far.
NoDeleteYet == \A t \in Threads : form[t].path # "/delete"

\* C10: from an empty store, one operation at a time: as long as no delete
\* was made the k-th accepted append got id k (the store holds ids 1..n
\* after n appends), and a delete(1) made when the store holds ids 1 and 2
\* leaves exactly the record with id 2.
SequentialIds ==
    /\ [](\A t \in Threads :
            (NoDeleteYet /\ Accepted(t) /\ pc[t] \in {"save", "write", "done"})
            => /\ IdsOf(snap[t]) = UpTo(Len(snap[t]))
               /\ Last(records[t]).id = Len(snap[t]) + 1)
    /\ []((NoDeleteYet /\ Parses(file))
            => IdsOf(Deserialize(file)) = UpTo(Cardinality(DoneAppends)))
    /\ [][\A t \in Threads :
            (/\ form[t].path = "/delete" /\ form[t].id = 1
             /\ pc[t] = "write" /\ pc'[t] = "done"
             /\ IdsOf(snap[t]) = <<1, 2>>)
            => /\ Parses(file')
               /\ Deserialize(file') = <<snap[t][2]>>
               /\ IdsOf(Deserialize(file')) = <<2>>]_vars

\* Two appends and then delete(1) have completed; the store holds id 2 only.
SequentialIdsWitness ==
    \E t \in Threads :
        /\ form[t].path = "/delete" /\ form[t].id = 1
        /\ pc[t] = "done"
        /\ IdsOf(snap[t]) = <<1, 2>>
        /\ Cardinality(DoneAppends) = 2
        /\ Parses(file)
        /\ IdsOf(Deserialize(file)) = <<2>>

\* ------------------------------------------------------------- C11
\* C11: while the persisted document cannot be parsed as a list of records,
\* no operation that loads (append, delete, query) ends normally or goes on
\* to save: each ends with an exception, and the document stays exactly as
\* it is.
CorruptLoadPropagates ==
    [][~Parses(file)
       => /\ file' = file
          /\ \A t \in Threads :
                pc'[t] # pc[t] => pc'[t] \in {"corrupt", "error", "ioerror"}]_vars

\* ------------------------------------------------------------- C12
\* C12: parse_fee_items never raises: for every input, a non-finite number
\* as price or quantity included, the call returns a list.
ParseNeverRaises == fn_pc # "raised"

\* ------------------------------------------------------------- C19
\* An object element is dropped when it has neither a name nor a subtotal.
IsObject(item) == item.k = "obj"
Dropped(item) == Strip(item.name) = <<>> /\ LineItem(item).subtotal = 0
KeptInput(item) == IsObject(item) /\ ~Dropped(item)

\* C19: every line item parse_fee_items returns has price >= 0, an integer
\* quantity >= 1, subtotal = round(price * quantity, 2), and a non-empty
\* name or a non-zero subtotal; the returned items are the object elements
\* of the input that are not nameless with a zero subtotal, in input order.
LineItemsWellFormed ==
    (fn_pc = "returned" /\ fn_arg.k = "list") =>
        LET kept == SelectSeq(fn_arg.items, KeptInput)
        IN  /\ Len(fn_ret) = Len(kept)
            /\ \A i \in 1..Len(fn_ret) :
                  LET li == fn_ret[i]
                  IN  /\ li.price >= 0
                      /\ li.quantity \in Nat /\ li.quantity >= 1
                      /\ li.subtotal = Round2(li.price * li.quantity)
                      /\ li.name # <<>> \/ li.subtotal # 0
                      /\ li.name = Strip(kept[i].name)
                      /\ li = LineItem(kept[i])

\* A call returned one item of a list of two, the other one dropped: a
\* nameless priced item whose quantity 2.9 was truncated to 2.
LineItemsWitness ==
    /\ fn_pc = "returned"
    /\ fn_arg.k = "list"
    /\ Len(fn_arg.items) = MaxItems
    /\ Len(fn_ret) = 1
    /\ \E i \in 1..Len(fn_arg.items) : IsObject(fn_arg.items[i]) /\ Dropped(fn_arg.items[i])
    /\ fn_ret[1].name = <<>>
    /\ fn_ret[1].subtotal = 2250

\* ------------------------------------------------------------- C13
\* The subtotal of a stored item, 0 when it has none.
SubtotalOf(item) == IF item.subtotal.t = "missing" THEN 0 ELSE item.subtotal.v

RECURSIVE TotalUpTo(_, _)
TotalUpTo(items, n) ==
    IF n = 0 THEN 0 ELSE TotalUpTo(items, n - 1) + SubtotalOf(items[n])

\* C13: compute_fee of a record whose fee_items is a non-empty list is the
\* sum of the items' subtotals (rounded to 2 decimals), whatever the fee
\* field; of any other record it is the flat fee clamped to at least 0
\* (rounded to 2 decimals), and 0 when the flat fee is missing or cannot be
\* parsed.
EffectiveFee ==
    fn_pc = "returned" =>
        LET items == fn_arg.fee_items.items
            fee   == fn_arg.fee
        IN  IF fn_arg.fee_items.k = "list" /\ Len(items) > 0
            THEN LET total == TotalUpTo(items, Len(items))
                 IN  /\ fn_ret = Round2(total)
                     /\ total % 10 = 0 => fn_ret = total
            ELSE /\ fn_ret >= 0
                 /\ fee.t \in {"missing", "bad", "nan"} => fn_ret = 0
                 /\ fee.t \in {"num", "numstr"} =>
                        /\ fee.v <= 0 => fn_ret = 0
                        /\ fee.v > 0 => fn_ret = Round2(fee.v)
                        /\ (fee.v > 0 /\ fee.v % 10 = 0) => fn_ret = fee.v

\* compute_fee returned the sum 2.25 of two items for a record whose flat
\* fee is 7.
EffectiveFeeWitness ==
    /\ fn_pc = "returned"
    /\ fn_arg.fee_items.k = "list"
    /\ Len(fn_arg.fee_items.items) = 2
    /\ fn_arg.fee = Num(7000)
    /\ fn_ret = 2250

\* ------------------------------------------------------------- C14
\* The day number of the Monday of the week of dt (day 1 is a Monday).
MondayOrdinal(dt) == ToOrdinal(dt) - ((ToOrdinal(dt) - 1) % 7)

\* The record is dated on or after the Monday of the week of today.
SinceMonday(r, today) ==
    \E d \in RecordDates :
        /\ r.visit_date = IsoFormat(d)
        /\ ToOrdinal(d) >= MondayOrdinal(today)

\* rs is the sorted list all without the records that fail Keep.
ExactlyThose(rs, all, Keep(_)) == rs = SelectSeq(all, Keep)

\* C14: with no name filter, the week range returns exactly the records
\* dated on or after the Monday of today's week, later than today included:
\* that Monday is in, the Sunday before it is out.
WeekFilterFromMonday ==
    (fn_pc = "returned" /\ Strip(fn_arg.name) = <<>> /\ fn_arg.range = "week") =>
        LET InWeek(r) == SinceMonday(r, fn_arg.today)
        IN  /\ ExactlyThose(fn_ret, SortDesc(fn_arg.loaded), InWeek)
            /\ \A i \in 1..Len(fn_arg.loaded) :
                  InWeek(fn_arg.loaded[i])
                  <=> \E j \in 1..Len(fn_ret) : fn_ret[j] = fn_arg.loaded[i]

\* On Wednesday 2024-05-08 the week filter ran on a Monday record, a record
\* of the Sunday before and one of next month: it returned the first and
\* the last.
WeekFilterWitness ==
    /\ fn_pc = "returned"
    /\ fn_arg.name = <<>> /\ fn_arg.range = "week"
    /\ fn_arg.today = Date(2024, 5, 8)
    /\ Len(fn_arg.loaded) = 3
    /\ fn_arg.loaded[1].visit_date = IsoFormat(Date(2024, 5, 6))
    /\ fn_arg.loaded[2].visit_date = IsoFormat(Date(2024, 5, 5))
    /\ fn_arg.loaded[3].visit_date = IsoFormat(Date(2024, 6, 1))
    /\ Len(fn_ret) = 2
    /\ fn_ret = <<fn_arg.loaded[3], fn_arg.loaded[1]>>

\* ------------------------------------------------------------- C15
\* text holds part as a run of consecutive characters.
HasSubstring(text, part) ==
    \E i \in 1..(Len(text) + 1) :
        /\ i + Len(part) - 1 <= Len(text)
        /\ \A k \in 1..Len(part) : text[i + k - 1] = part[k]

\* C15: with a non-empty name filter (after strip) the query returns
\* exactly the records whose patient_name contains it, whatever the range;
\* the range filter is applied only when the name filter is empty.
NameFilterPrecedes ==
    fn_pc = "returned" =>
        LET q_name == Strip(fn_arg.name)
            Named(r) == HasSubstring(r.patient_name, q_name)
            sorted == SortDesc(fn_arg.loaded)
        IN  IF q_name # <<>>
            THEN ExactlyThose(fn_ret, sorted, Named)
            ELSE fn_ret = RangeFilter(sorted, QRange(fn_arg.range), fn_arg.today)

\* A query for the name "a" with the default range (the day 2024-05-08)
\* returned a matching record of April and left out a record of the day
\* that does not match.
NameFilterWitness ==
    /\ fn_pc = "returned"
    /\ Strip(fn_arg.name) = <<"a">> /\ fn_arg.range = ""
    /\ fn_arg.today = Date(2024, 5, 8)
    /\ Len(fn_arg.loaded) = 2
    /\ fn_arg.loaded[1].visit_date = IsoFormat(Date(2024, 4, 29))
    /\ fn_arg.loaded[1].patient_name = <<"a", "b">>
    /\ fn_arg.loaded[2].visit_date = IsoFormat(Date(2024, 5, 8))
    /\ fn_arg.loaded[2].patient_name = <<"b">>
    /\ fn_ret = <<fn_arg.loaded[1]>>

\* ------------------------------------------------------------- C16
\* C16: when an accepted append and a delete naming another id are the two
\* requests that ran and both have completed, the appended record is in
\* the store, however their steps interleaved.
AppendSurvivesDelete ==
    \A t, u \in Threads :
        (/\ Accepted(t) /\ pc[t] = "done"
         /\ form[u].path = "/delete" /\ pc[u] = "done"
         /\ \A v \in Threads \ {t, u} : pc[v] = "idle"
         /\ Last(records[t]).id # form[u].id)
        => /\ Parses(file)
           /\ \E i \in 1..Len(Deserialize(file)) :
                 Deserialize(file)[i] = Last(records[t])

\* ------------------------------------------------------------- C17
\* The threads whose append made a record with this id.
Creators(id) ==
    {t \in Threads : /\ Accepted(t)
                     /\ pc[t] \in {"save", "write", "done", "ioerror"}
                     /\ Last(records[t]).id = id}

\* C17: once a delete of an id it found in the store has completed, the
\* store holds no record with that id (as long as no second append has made
\* a record with the same id), whatever appends and deletes run
\* concurrently.
DeletedStaysDeleted ==
    \A u \in Threads :
        (/\ form[u].path = "/delete" /\ pc[u] = "done"
         /\ HasId(snap[u], form[u].id)
         /\ Cardinality(Creators(form[u].id)) <= 1
         /\ Parses(file))
        => ~HasId(Deserialize(file), form[u].id)

\* ------------------------------------------------------------- C18
Distinct(ids) == \A i, j \in 1..Len(ids) : i # j => ids[i] # ids[j]

GetStep(t) ==
    \/ pc[t] = "idle" /\ form'[t].path = "/"
    \/ pc[t] = "render" /\ pc'[t] # "render"

\* C20: a GET request does not change the persisted collection: while the
\* data file exists, every step of a GET (load, sort, filter, statistics)
\* leaves the file as it is.
GetLeavesStore ==
    [][(file # Absent /\ \E t \in Threads : GetStep(t)) => file' = file]_vars

\* A GET has completed on a store that holds a record, and listed it.
GetLeavesStoreWitness ==
    \E t \in Threads :
        /\ form[t].path = "/"
        /\ pc[t] = "done"
        /\ Len(snap[t]) > 0
        /\ Len(records[t]) > 0
        /\ Parses(file)
        /\ Deserialize(file) = snap[t]

\* ------------------------------------------------------------- C21
\* In the list, a comes before b in the order (visit_date, id) descending:
\* a later visit_date, or the same visit_date and a higher id.
Before(a, b) ==
    \/ StrLess(b.visit_date, a.visit_date)
    \/ a.visit_date = b.visit_date /\ a.id > b.id

CountsNested ==
    fn_pc = "returned" =>
        /\ fn_ret.count_today <= fn_ret.count_month
        /\ fn_ret.count_month <= fn_ret.count_all
        /\ fn_ret.count_all = Len(fn_arg.records)

\* stats returned for 2024-05-08 on three records: one of the day, one of
\* another day of May, one of April; the three counts are 1, 2 and 3.
CountsNestedWitness ==
    /\ fn_pc = "returned"
    /\ fn_arg.today = Date(2024, 5, 8)
    /\ Len(fn_arg.records) = 3
    /\ fn_arg.records[1].visit_date = IsoFormat(Date(2024, 5, 8))
    /\ fn_arg.records[2].visit_date = IsoFormat(Date(2024, 5, 5))
    /\ fn_arg.records[3].visit_date = IsoFormat(Date(2024, 4, 29))
    /\ fn_ret.count_today = 1
    /\ fn_ret.count_month = 2
    /\ fn_ret.count_all = 3
    /\ fn_ret.fee_today > 0

====
